---- MODULE Spec2Model ----
\* A model of the GIF player of ssd1306plus (SSD1306.gif in src/ssd1306plus.py):
\* the container parser, the sub-block reader, the LZW decoder, the frame
\* compositor and the animation loop, over byte streams built from a small
\* library of GIF blocks.
EXTENDS Integers, Sequences, FiniteSets, TLC

VARIABLES
    data,                \* the bytes read from the file (0-based in the code)
    x, y,                \* origin of the logical screen on the display
    loop,                \* number of passes, negative = infinite
    delay_ms,            \* <<>> for None, <<d>> for a caller-supplied delay
    clear,               \* clear the frame area before drawing
    crop,                \* <<>> for None, <<xmin, ymin, xmax, ymax>>
    pc,                  \* "idle", "start", "loop", "block", "done", "raised"
    p,                   \* parse cursor
    start_pos,           \* where the blocks start
    bg_color_index,
    loops_done,
    transparency_index,  \* <<>> for None, <<T>>
    frame_delay_ms,
    surface,             \* the frame buffer: [coordinate -> 0 or 1]
    calls,               \* surface and sleep calls issued in the current pass
    frame,               \* <<>> or <<f>>: the last frame composited, as it was drawn
    gce_seen,            \* <<>> or <<g>>: the GCE parsed since the last image descriptor
    last,                \* the last block step of the pass: what was read, and where
    first_pass,          \* <<>> or <<cs>>: the calls of the first completed pass
    lzw                  \* the state of one _lzw_decode call run step by step

vars == <<data, x, y, loop, delay_ms, clear, crop, pc, p, start_pos, bg_color_index,
          loops_done, transparency_index, frame_delay_ms, surface, calls, frame,
          gce_seen, last, first_pass, lzw>>

gifVars == <<data, x, y, loop, delay_ms, clear, crop, pc, p, start_pos, bg_color_index,
             loops_done, transparency_index, frame_delay_ms, surface, calls, frame,
             gce_seen, last, first_pass>>

----------------------------------------------------------------------------
\* Bytes and slices

Min(a, b) == IF a < b THEN a ELSE b

Pow2(n) == 2 ^ n

\* d[i] of a bytes object, 0-based
At(d, i) == d[i + 1]

\* d[a:b] of a bytes object: clipped to the object, never raising
Slice(d, a, b) == SubSeq(d, a + 1, Min(b, Len(d)))

\* d[i] | (d[i + 1] << 8)
Word(d, i) == At(d, i) + 256 * At(d, i + 1)

\* The value used for a cursor or a code that does not exist
Absent == 0 - 1

----------------------------------------------------------------------------
\* _read_subblocks

RECURSIVE ReadSubblocksFrom(_, _, _)
ReadSubblocksFrom(d, pos, img_data) ==
    IF pos >= Len(d)
    THEN [img |-> img_data, pos |-> pos]
    ELSE LET block_len == At(d, pos)
         IN  IF block_len = 0
             THEN [img |-> img_data, pos |-> pos + 1]
             ELSE ReadSubblocksFrom(d, pos + 1 + block_len,
                                    img_data \o Slice(d, pos + 1, pos + 1 + block_len))

read_subblocks(d, pos) == ReadSubblocksFrom(d, pos, <<>>)

----------------------------------------------------------------------------
\* _lzw_decode

max_code_size == 12

\* [[i] for i in range(clear_code)] + [None, None]; None is the empty sequence
RootDictionary(clear_code) ==
    [i \in 1..(clear_code + 2) |-> IF i <= clear_code THEN <<i - 1>> ELSE <<>>]

RECURSIVE NextCodeLoop(_, _, _, _, _)
NextCodeLoop(img, bit_pos, code_size, raw, bits_read) ==
    IF bits_read < code_size /\ (bit_pos \div 8) < Len(img)
    THEN LET b == At(img, bit_pos \div 8)
             available == 8 - (bit_pos % 8)
             take == Min(code_size - bits_read, available)
             v == (b \div Pow2(bit_pos % 8)) % Pow2(take)
         IN  NextCodeLoop(img, bit_pos + take, code_size,
                          raw + v * Pow2(bits_read), bits_read + take)
    ELSE IF bits_read # code_size
         THEN [code |-> Absent, bit_pos |-> bit_pos]
         ELSE [code |-> raw, bit_pos |-> bit_pos]

next_code(img, bit_pos, code_size) ==
    IF (bit_pos \div 8) >= Len(img)
    THEN [code |-> Absent, bit_pos |-> bit_pos]
    ELSE NextCodeLoop(img, bit_pos, code_size, 0, 0)

\* The decoder before its first statement
LzwCall(img, mcs, n) ==
    [pc |-> "call", img_bytes |-> img, min_code_size |-> mcs, expected_pixels |-> n,
     dictionary |-> <<>>, code_size |-> 0, bit_pos |-> 0, output |-> <<>>,
     prev |-> <<>>, result |-> <<>>]

LzwReturn(s, out) == [s EXCEPT !.pc = "ret", !.result = out]

FallbackRange(mcs) == mcs < 2 \/ mcs > 8

\* Lines 157-216: the fallback, the initial code, the optional leading clear code
LzwStart(s) ==
    LET img == s.img_bytes
        mcs == s.min_code_size
        clear_code == Pow2(mcs)
        end_code == clear_code + 1
        s0 == [s EXCEPT !.dictionary = RootDictionary(clear_code), !.code_size = mcs + 1]
        c1 == next_code(img, 0, mcs + 1)
        c2 == next_code(img, c1.bit_pos, mcs + 1)
        first == IF c1.code = clear_code THEN c2 ELSE c1
        s1 == [s0 EXCEPT !.bit_pos = first.bit_pos]
    IN  IF FallbackRange(mcs)
        THEN LzwReturn(s, Slice(img, 0, s.expected_pixels))
        ELSE IF c1.code = Absent
        THEN LzwReturn([s0 EXCEPT !.bit_pos = c1.bit_pos], <<>>)
        ELSE IF first.code = Absent \/ first.code = end_code
        THEN LzwReturn(s1, <<>>)
        ELSE IF first.code >= Len(s1.dictionary) \/ At(s1.dictionary, first.code) = <<>>
        THEN LzwReturn(s1, <<>>)
        ELSE [s1 EXCEPT !.pc = "run",
                        !.prev = At(s1.dictionary, first.code),
                        !.output = At(s1.dictionary, first.code)]

\* LzwClear with the code width left as it was
LzwClearKeepsWidth(s, bit_pos) ==
    LET clear_code == Pow2(s.min_code_size)
        end_code == clear_code + 1
        dict == RootDictionary(clear_code)
        c == next_code(s.img_bytes, bit_pos, s.min_code_size + 1)
        s1 == [s EXCEPT !.dictionary = dict, !.bit_pos = c.bit_pos]
        cur == IF c.code >= Len(dict) \/ At(dict, c.code) = <<>>
               THEN <<>>
               ELSE At(dict, c.code)
    IN  IF c.code = Absent \/ c.code = end_code
        THEN LzwReturn(s1, Slice(s1.output, 0, s.expected_pixels))
        ELSE [s1 EXCEPT !.output = s.output \o cur, !.prev = cur]

\* Lines 223-235: a clear code inside the loop
LzwClear(s, bit_pos) ==
    LET clear_code == Pow2(s.min_code_size)
        end_code == clear_code + 1
        dict == RootDictionary(clear_code)
        c == next_code(s.img_bytes, bit_pos, s.min_code_size + 1)
        s1 == [s EXCEPT !.dictionary = dict, !.code_size = s.min_code_size + 1,
                        !.bit_pos = c.bit_pos]
        cur == IF c.code >= Len(dict) \/ At(dict, c.code) = <<>>
               THEN <<>>
               ELSE At(dict, c.code)
    IN  IF c.code = Absent \/ c.code = end_code
        THEN LzwReturn(s1, Slice(s1.output, 0, s.expected_pixels))
        ELSE [s1 EXCEPT !.output = s.output \o cur, !.prev = cur]

\* LzwEmit with the code widened one entry early
LzwEmitWidensEarly(s, bit_pos, cur) ==
    LET dict == Append(s.dictionary, s.prev \o <<cur[1]>>)
        grow == Len(dict) + 1 = Pow2(s.code_size) /\ s.code_size < max_code_size
    IN  [s EXCEPT !.bit_pos = bit_pos,
                  !.output = s.output \o cur,
                  !.dictionary = dict,
                  !.code_size = IF grow THEN s.code_size + 1 ELSE s.code_size,
                  !.prev = cur]

\* Lines 249-255: emit cur, grow the dictionary, widen the code
LzwEmit(s, bit_pos, cur) ==
    LET dict == Append(s.dictionary, s.prev \o <<cur[1]>>)
        grow == Len(dict) = Pow2(s.code_size) /\ s.code_size < max_code_size
    IN  [s EXCEPT !.bit_pos = bit_pos,
                  !.output = s.output \o cur,
                  !.dictionary = dict,
                  !.code_size = IF grow THEN s.code_size + 1 ELSE s.code_size,
                  !.prev = cur]

\* Lines 218-257: one turn of the while loop, or the return after it
LzwIter(s) ==
    LET clear_code == Pow2(s.min_code_size)
        end_code == clear_code + 1
        c == next_code(s.img_bytes, s.bit_pos, s.code_size)
        sb == [s EXCEPT !.bit_pos = c.bit_pos]
        stop == LzwReturn(sb, Slice(s.output, 0, s.expected_pixels))
    IN  IF ~(Len(s.output) < s.expected_pixels)
        THEN LzwReturn(s, Slice(s.output, 0, s.expected_pixels))
        ELSE IF c.code = Absent
        THEN stop
        ELSE IF c.code = clear_code
        THEN LzwClear(s, c.bit_pos)
        ELSE IF c.code = end_code
        THEN stop
        ELSE IF c.code < Len(s.dictionary) /\ At(s.dictionary, c.code) # <<>>
        THEN LzwEmit(s, c.bit_pos, At(s.dictionary, c.code))
        ELSE IF c.code = Len(s.dictionary)
        THEN IF s.prev = <<>>
             THEN [sb EXCEPT !.pc = "raise"]
             ELSE LzwEmit(s, c.bit_pos, s.prev \o <<s.prev[1]>>)
        ELSE stop

\* (each intermediate state is bound through a singleton set, so that it is
\* computed once)
RECURSIVE LzwRun(_)
LzwRun(s) ==
    IF s.pc = "run"
    THEN CHOOSE r \in {LzwRun(t) : t \in {LzwIter(s)}} : TRUE
    ELSE s

\* The whole call: .pc is "ret" with .result returned, or "raise"
lzw_decode(img, mcs, n) ==
    CHOOSE r \in {LzwRun(t) : t \in {LzwStart(LzwCall(img, mcs, n))}} : TRUE

----------------------------------------------------------------------------
\* The display: framebuf.FrameBuffer of width x height, written through
\* pixel() and fill_rect(), both of which ignore what falls outside the buffer

DispW == 4

DispH == 3

Display == (0..(DispW - 1)) \X (0..(DispH - 1))

InRect(c, rx, ry, rw, rh) ==
    /\ rx <= c[1] /\ c[1] < rx + rw
    /\ ry <= c[2] /\ c[2] < ry + rh

\* The effect of one call on the buffer
ApplyCall(s, call) ==
    IF call[1] = "pixel"
    THEN [c \in Display |-> IF c = <<call[2], call[3]>> THEN call[4] ELSE s[c]]
    ELSE IF call[1] = "fill_rect"
    THEN [c \in Display |->
             IF InRect(c, call[2], call[3], call[4], call[5]) THEN call[6] ELSE s[c]]
    ELSE s

\* (each intermediate buffer is bound through a singleton set, so that it is
\* computed once)
RECURSIVE ApplyCalls(_, _)
ApplyCalls(s, cs) ==
    IF cs = <<>>
    THEN s
    ELSE CHOOSE r \in {ApplyCalls(t, Tail(cs)) : t \in {ApplyCall(s, Head(cs))}} : TRUE

----------------------------------------------------------------------------
\* The frame compositor (lines 357-395)

\* A compositor that forgets the transparency test
IsTransparentNever(trans, idx) == FALSE

\* (transparency_index is not None) and (idx == transparency_index)
IsTransparent(trans, idx) == trans # <<>> /\ idx = trans[1]

\* Colour with on and off exchanged
ColourInverted(idx, bg_idx) == IF idx # bg_idx THEN 0 ELSE 1

\* col = 1 if idx != bg_idx else 0
Colour(idx, bg_idx) == IF idx # bg_idx THEN 1 ELSE 0

\* A crop test that forgets the rows
NotCroppedColumnsOnly(cr, px, py) ==
    IF cr = <<>>
    THEN TRUE
    ELSE ~(px < cr[1] \/ px > cr[3])

NotCropped(cr, px, py) ==
    IF cr = <<>>
    THEN TRUE
    ELSE /\ ~(px < cr[1] \/ px > cr[3])
         /\ ~(py < cr[2] \/ py > cr[4])

\* The pixel() calls of the two nested loops, from source position pos on
RECURSIVE DrawFrom(_, _)
DrawFrom(f, pos) ==
    IF pos >= f.width * f.height \/ pos >= Len(f.indices)
    THEN <<>>
    ELSE LET idx == At(f.indices, pos)
             px == f.x + f.left + (pos % f.width)
             py == f.y + f.top + (pos \div f.width)
             here == IF IsTransparent(f.trans, idx)
                     THEN <<>>
                     ELSE IF NotCropped(f.crop, px, py)
                     THEN << <<"pixel", px, py, Colour(idx, f.bg)>> >>
                     ELSE <<>>
         IN  here \o DrawFrom(f, pos + 1)

ClearCalls(f) ==
    IF f.clear
    THEN << <<"fill_rect", f.x + f.left, f.y + f.top, f.width, f.height, 0>> >>
    ELSE <<>>

\* d = delay_ms if (delay_ms is not None) else frame_delay_ms; if d <= 0: d = 50
FrameDelay(dms, fdms) ==
    LET d == IF dms # <<>> THEN dms[1] ELSE fdms
    IN  IF d <= 0 THEN 50 ELSE d

\* All the calls of one frame, in the order the code issues them
FrameCalls(f) ==
    ClearCalls(f) \o DrawFrom(f, 0) \o << <<"show">> >> \o << <<"sleep", f.delay>> >>

----------------------------------------------------------------------------
\* The container parser (lines 115-139 and 264-399)

GIF87a == <<71, 73, 70, 56, 55, 97>>

GIF89a == <<71, 73, 70, 56, 57, 97>>

Trailer == 59

Extension == 33

ImageDescriptor == 44

GraphicControlLabel == 249

StartsWith(d, sig) == Len(d) >= Len(sig) /\ SubSeq(d, 1, Len(sig)) = sig

\* A header test that forgets the signature
HeaderAcceptedAnySignature(d) == ~(Len(d) < 13)

\* Lines 115-120: neither of the two early returns is taken
HeaderAccepted(d) ==
    /\ ~(Len(d) < 13)
    /\ (StartsWith(d, GIF87a) \/ StartsWith(d, GIF89a))

\* 1 << ((packed & 0x07) + 1) entries of 3 bytes when bit 0x80 is set
ColorTableBytes(packed) ==
    IF (packed \div 128) % 2 = 1 THEN 3 * Pow2((packed % 8) + 1) ELSE 0

\* A loop condition that is off by one
KeepLoopingInclusive(lp, done) == lp < 0 \/ done <= lp

\* Line 264: while infinite or loops_done < loop
KeepLooping(lp, done) == lp < 0 \/ done < lp

\* Lines 305-309, from the byte after block_size; Absent when a read raises
RECURSIVE SkipOddLoop(_, _, _)
SkipOddLoop(d, q, sub_len) ==
    IF sub_len = 0
    THEN q
    ELSE IF q >= Len(d)
    THEN Absent
    ELSE SkipOddLoop(d, q + 1 + At(d, q), At(d, q))

SkipOddGce(d, q) ==
    IF q >= Len(d) THEN Absent ELSE SkipOddLoop(d, q + 1 + At(d, q), At(d, q))

\* Lines 313-318, from the byte after the label; Absent when a read raises
RECURSIVE SkipOtherLoop(_, _, _)
SkipOtherLoop(d, q, sub_len) ==
    IF sub_len = 0
    THEN q
    ELSE IF q + sub_len >= Len(d)
    THEN Absent
    ELSE SkipOtherLoop(d, q + sub_len + 1, At(d, q + sub_len))

SkipOtherExtension(d, q) ==
    IF q >= Len(d) THEN Absent ELSE SkipOtherLoop(d, q + 1, At(d, q))

----------------------------------------------------------------------------
\* The inputs: byte streams built from a library of GIF blocks, and the
\* arguments of gif()

MaxBlocks == 2

MaxLoop == 2

MaxPasses == 3

\* Logical screen descriptor 4 x 3; packed 0x80 announces a 2-entry global table
ScreenWithTable == <<4, 0, 3, 0, 128, 0, 0>> \o <<0, 0, 0, 255, 255, 255>>

ScreenNoTable == <<4, 0, 3, 0, 0, 1, 0>>

GoodHeaders == {GIF89a \o ScreenWithTable, GIF87a \o ScreenNoTable}

BadSignature == <<71, 73, 70, 56, 56, 97>>

BadHeaders == {BadSignature \o ScreenNoTable}

\* GCE: transparency on, index 1, delay 10/100 s
GceT == <<33, 249, 4, 1, 10, 0, 1, 0>>

\* GCE: transparency off (disposal bits only), delay 0
GceN == <<33, 249, 4, 4, 0, 0, 1, 0>>

\* GCE with a declared size of 2
GceOdd == <<33, 249, 2, 2, 7, 0>>

\* Comment extension whose data look like a trailer and an image separator
Comment == <<33, 254, 2, 59, 44, 0>>

\* 2 x 2 image at (0, 0), LZW of the indices 1 0 1 1
ImgA == <<44, 0, 0, 0, 0, 2, 0, 2, 0, 0>> \o <<2, 3, 12, 18, 5, 0>>

\* 2 x 2 image at (1, 1) with a local table, LZW of the three indices 0 1 1
ImgB == <<44, 1, 0, 1, 0, 2, 0, 2, 0, 128>> \o <<9, 9, 9, 8, 8, 8>> \o <<2, 2, 68, 82, 0>>

\* Interlaced 2 x 2 image with a local table
ImgI == <<44, 0, 0, 0, 0, 2, 0, 2, 0, 192>> \o <<9, 9, 9, 8, 8, 8>> \o <<2, 3, 12, 18, 5, 0>>

\* A graphic block: a GCE and the image it applies to
FrameT == GceT \o ImgA

Blocks == {FrameT, ImgB, ImgI, GceN, GceOdd, Comment, <<Trailer>>, <<0>>}

WellFormedBlocks == {FrameT, ImgB, ImgI, GceN, Comment}

RECURSIVE Concat(_)
Concat(bs) == IF bs = <<>> THEN <<>> ELSE Head(bs) \o Concat(Tail(bs))

BlockSeqs(S, n) == UNION {[1..k -> S] : k \in 0..n}

Bodies == {Concat(bs) : bs \in BlockSeqs(Blocks, MaxBlocks)}

\* A good header, well-formed blocks and the trailer
WellFormedStreams ==
    {h \o Concat(bs) \o <<Trailer>> :
        h \in GoodHeaders, bs \in BlockSeqs(WellFormedBlocks, MaxBlocks - 1)}

\* Streams cut inside their last block
ProperPrefixes(b) == {SubSeq(b, 1, k) : k \in 1..(Len(b) - 1)}

TruncatedBodies ==
    {Concat(bs) \o t :
        bs \in BlockSeqs(Blocks, MaxBlocks - 1), t \in UNION {ProperPrefixes(b) : b \in Blocks}}

\* Streams under 13 bytes
ShortStreams == {SubSeq(GIF89a \o ScreenNoTable, 1, k) : k \in 0..12}

Zeros == [c \in Display |-> 0]

Checker == [c \in Display |-> (c[1] + c[2]) % 2]

Crops == {<<>>, <<1, 0, 2, 1>>}

Origins == {<<0, 0>>, <<1, 1>>}

Loops == (0 - 1)..MaxLoop

Delays == {<<>>, <<0>>, <<20>>}

Args(lp, dms, cl, cr, org, sf) ==
    [loop |-> lp, delay_ms |-> dms, clear |-> cl, crop |-> cr, x |-> org[1], y |-> org[2],
     surface |-> sf]

\* One pass with every way of drawing
DrawArgs ==
    {Args(1, <<>>, cl, cr, org, Checker) : cl \in BOOLEAN, cr \in Crops, org \in Origins}

\* Every other loop count
LoopArgs == {Args(lp, <<>>, FALSE, <<>>, <<0, 0>>, Zeros) : lp \in Loops \ {1}}

\* One pass with every delay override
DelayArgs == {Args(1, dms, FALSE, <<>>, <<0, 0>>, Zeros) : dms \in Delays \ {<<>>}}

DefaultArgs == Args(1, <<>>, FALSE, <<>>, <<0, 0>>, Zeros)

\* Bodies played with every loop count and delay: with and without a trailer
LoopBodies ==
    {Concat(bs) \o t : bs \in BlockSeqs(Blocks, MaxBlocks - 1), t \in {<<>>, <<Trailer>>}}

\* An image without a graphic control extension before one that has it,
\* played with every loop count
RepeatedBodies == {ImgB \o FrameT \o t : t \in {<<>>, <<Trailer>>}}

Inputs ==
    {<<h \o b, a>> : h \in GoodHeaders, b \in Bodies, a \in DrawArgs}
    \cup {<<h \o b, a>> : h \in GoodHeaders, b \in RepeatedBodies, a \in LoopArgs}
    \cup {<<h \o b, a>> : h \in GoodHeaders, b \in LoopBodies, a \in LoopArgs \cup DelayArgs}
    \cup {<<GIF87a \o ScreenNoTable \o b, DefaultArgs>> : b \in TruncatedBodies}
    \cup {<<h \o b, a>> : h \in BadHeaders, b \in {<<>>, FrameT, ImgB \o <<Trailer>>},
                          a \in DrawArgs \cup LoopArgs \cup DelayArgs}
    \cup {<<s, a>> : s \in ShortStreams, a \in DrawArgs \cup LoopArgs \cup DelayArgs}

LzwIdle == [LzwCall(<<>>, 0, 0) EXCEPT !.pc = "idle"]

\* The display has been constructed (fill(0), show()); nothing has been called
Init ==
    /\ data = <<>>
    /\ x = 0
    /\ y = 0
    /\ loop = 0
    /\ delay_ms = <<>>
    /\ clear = FALSE
    /\ crop = <<>>
    /\ surface = Zeros
    /\ pc = "idle"
    /\ p = 0
    /\ start_pos = 0
    /\ bg_color_index = 0
    /\ loops_done = 0
    /\ transparency_index = <<>>
    /\ frame_delay_ms = 0
    /\ calls = <<>>
    /\ frame = <<>>
    /\ gce_seen = <<>>
    /\ last = [kind |-> "none", at |-> 0, ncalls |-> 0, images |-> 0]
    /\ first_pass = <<>>
    /\ lzw = LzwIdle

----------------------------------------------------------------------------
\* gif(): one action per step of the two loops

inputVars == <<data, x, y, loop, delay_ms, clear, crop>>

\* What the last block step of the pass read: its kind, the cursor it started
\* at, the number of calls issued before it and the number of non-interlaced
\* image descriptors parsed so far in the pass
Step(kind, images) ==
    [kind |-> kind, at |-> p, ncalls |-> Len(calls), images |-> images]

NoStep == [kind |-> "none", at |-> 0, ncalls |-> 0, images |-> 0]

\* Lines 99-113: gif() is called on a file, over whatever the caller has
\* drawn on the display before
Call ==
    /\ pc = "idle"
    /\ \E in \in Inputs :
        /\ data' = in[1]
        /\ x' = in[2].x
        /\ y' = in[2].y
        /\ loop' = in[2].loop
        /\ delay_ms' = in[2].delay_ms
        /\ clear' = in[2].clear
        /\ crop' = in[2].crop
        /\ surface' = in[2].surface
    /\ pc' = "start"
    /\ UNCHANGED <<p, start_pos, bg_color_index, loops_done, transparency_index,
                   frame_delay_ms, calls, frame, gce_seen, last, lzw, first_pass>>

\* Lines 115-120: a stream that is too short or not a GIF returns at once
Reject ==
    /\ pc = "start"
    /\ ~HeaderAccepted(data)
    /\ pc' = "done"
    /\ UNCHANGED <<inputVars, p, start_pos, bg_color_index, loops_done, transparency_index,
                   frame_delay_ms, surface, calls, frame, gce_seen, last, lzw, first_pass>>

\* Lines 122-139 and 260-262: logical screen descriptor, global colour table
Start ==
    /\ pc = "start"
    /\ HeaderAccepted(data)
    /\ bg_color_index' = At(data, 11)
    /\ p' = 13 + ColorTableBytes(At(data, 10))
    /\ start_pos' = 13 + ColorTableBytes(At(data, 10))
    /\ loops_done' = 0
    /\ pc' = "loop"
    /\ UNCHANGED <<inputVars, transparency_index, frame_delay_ms, surface, calls, frame,
                   gce_seen, last, lzw, first_pass>>

\* BeginPass without the reset of the pending transparency and delay
BeginPassKeepsPending ==
    /\ pc = "loop"
    /\ KeepLooping(loop, loops_done)
    /\ loops_done < MaxPasses
    /\ p' = start_pos
    /\ calls' = <<>>
    /\ frame' = <<>>
    /\ gce_seen' = <<>>
    /\ last' = NoStep
    /\ pc' = "block"
    /\ UNCHANGED <<inputVars, start_pos, bg_color_index, loops_done, surface, lzw,
                   first_pass, transparency_index, frame_delay_ms>>

\* Lines 264-267: the head of the animation loop, a pass begins
BeginPass ==
    /\ pc = "loop"
    /\ KeepLooping(loop, loops_done)
    /\ loops_done < MaxPasses
    /\ p' = start_pos
    /\ transparency_index' = <<>>
    /\ frame_delay_ms' = 0
    /\ calls' = <<>>
    /\ frame' = <<>>
    /\ gce_seen' = <<>>
    /\ last' = NoStep
    /\ pc' = "block"
    /\ UNCHANGED <<inputVars, start_pos, bg_color_index, loops_done, surface, lzw, first_pass>>

\* Line 264: the loop condition fails, gif() returns
Finish ==
    /\ pc = "loop"
    /\ ~KeepLooping(loop, loops_done)
    /\ pc' = "done"
    /\ UNCHANGED <<inputVars, p, start_pos, bg_color_index, loops_done, transparency_index,
                   frame_delay_ms, surface, calls, frame, gce_seen, last, lzw, first_pass>>

\* Lines 398-399: gc.collect(); loops_done += 1
EndPass(q) ==
    /\ p' = q
    /\ loops_done' = loops_done + 1
    /\ pc' = "loop"
    /\ first_pass' = IF loops_done = 0 THEN <<calls>> ELSE first_pass
    /\ UNCHANGED <<inputVars, start_pos, bg_color_index, transparency_index, frame_delay_ms,
                   surface, calls, frame, gce_seen, last, lzw>>

\* An IndexError leaves gif(); l is the block step it happened in
RaiseIn(l) ==
    /\ pc' = "raised"
    /\ last' = l
    /\ UNCHANGED <<inputVars, p, start_pos, bg_color_index, loops_done, transparency_index,
                   frame_delay_ms, surface, calls, frame, gce_seen, lzw, first_pass>>

AtBlock(b) == pc = "block" /\ p < Len(data) /\ At(data, p) = b

\* Line 269: the inner while ends with the data
EndOfData ==
    /\ pc = "block"
    /\ ~(p < Len(data))
    /\ EndPass(p)

\* Lines 274-275
ReadTrailer ==
    /\ AtBlock(Trailer)
    /\ EndPass(p + 1)

\* Lines 279-285: the label or the block size lies beyond the data
ExtensionRaise ==
    /\ AtBlock(Extension)
    /\ \/ ~(p + 1 < Len(data))
       \/ /\ p + 1 < Len(data)
          /\ At(data, p + 1) = GraphicControlLabel
          /\ ~(p + 2 < Len(data))
    /\ RaiseIn(Step("extension", last.images))

\* Lines 283-302: a graphic control extension of size 4
GraphicControl ==
    /\ AtBlock(Extension)
    /\ p + 2 < Len(data)
    /\ At(data, p + 1) = GraphicControlLabel
    /\ At(data, p + 2) = 4
    /\ IF ~(p + 7 < Len(data))
       THEN RaiseIn(Step("gce", last.images))
       ELSE LET packed_fields == At(data, p + 3)
                ms == Word(data, p + 4) * 10
                trans_index == At(data, p + 6)
            IN  /\ p' = p + 8
                /\ frame_delay_ms' = IF ms <= 0 THEN 50 ELSE ms
                /\ transparency_index' =
                       IF packed_fields % 2 = 1 THEN <<trans_index>> ELSE transparency_index
                /\ gce_seen' = <<[packed_fields |-> packed_fields,
                                  delay |-> Word(data, p + 4),
                                  trans_index |-> trans_index]>>
                /\ last' = Step("gce", last.images)
                /\ UNCHANGED <<inputVars, pc, start_pos, bg_color_index, loops_done, surface,
                               calls, frame, lzw, first_pass>>

\* A block of the given kind has been stepped over: only the cursor moves
Skip(kind, q) ==
    IF q = Absent
    THEN RaiseIn(Step(kind, last.images))
    ELSE /\ p' = q
         /\ last' = Step(kind, last.images)
         /\ UNCHANGED <<inputVars, pc, start_pos, bg_color_index, loops_done,
                        transparency_index, frame_delay_ms, surface, calls, frame, gce_seen,
                        lzw, first_pass>>

\* Lines 303-309: a graphic control extension of another size
OddGraphicControl ==
    /\ AtBlock(Extension)
    /\ p + 2 < Len(data)
    /\ At(data, p + 1) = GraphicControlLabel
    /\ At(data, p + 2) # 4
    /\ Skip("odd gce", SkipOddGce(data, p + 3))

\* Lines 311-318: any other extension
OtherExtension ==
    /\ AtBlock(Extension)
    /\ p + 1 < Len(data)
    /\ At(data, p + 1) # GraphicControlLabel
    /\ Skip("extension", SkipOtherExtension(data, p + 2))

\* Lines 324-329: one of the nine descriptor bytes lies beyond the data
DescriptorRaise ==
    /\ AtBlock(ImageDescriptor)
    /\ ~(p + 9 < Len(data))
    /\ RaiseIn(Step("descriptor", last.images))

\* (packed_fields & 0x40) != 0
Interlaced(packed_fields) == (packed_fields \div 64) % 2 = 1

\* A skip that forgets the minimum-code-size byte
SkipInterlacedFromCodeSize(d, q) ==
    read_subblocks(d, q + 1 + ColorTableBytes(At(d, q))).pos

\* Lines 335-341: where the cursor goes for an interlaced image whose
\* packed byte is at q
SkipInterlacedTo(d, q) ==
    read_subblocks(d, q + 1 + ColorTableBytes(At(d, q)) + 1).pos

\* Lines 331-341: an interlaced image is stepped over
SkipInterlaced ==
    /\ AtBlock(ImageDescriptor)
    /\ p + 9 < Len(data)
    /\ Interlaced(At(data, p + 9))
    /\ p' = SkipInterlacedTo(data, p + 9)
    /\ gce_seen' = <<>>
    /\ last' = Step("interlaced", last.images)
    /\ UNCHANGED <<inputVars, pc, start_pos, bg_color_index, loops_done, transparency_index,
                   frame_delay_ms, surface, calls, frame, lzw, first_pass>>

\* The frame the code composites for the descriptor at q, given what was decoded
FrameAt(q, indices) ==
    [at |-> q,
     left |-> Word(data, q + 1), top |-> Word(data, q + 3),
     width |-> Word(data, q + 5), height |-> Word(data, q + 7),
     indices |-> indices,
     trans |-> transparency_index,
     bg |-> bg_color_index,
     x |-> x, y |-> y, crop |-> crop, clear |-> clear,
     delay |-> FrameDelay(delay_ms, frame_delay_ms),
     gce |-> gce_seen,
     pre |-> surface,
     drawn |-> <<>>]

\* Lines 343-397: a frame is read, decoded, drawn, shown and waited for
DrawImage ==
    /\ AtBlock(ImageDescriptor)
    /\ p + 9 < Len(data)
    /\ ~Interlaced(At(data, p + 9))
    /\ \E q \in {p + 10 + ColorTableBytes(At(data, p + 9))} :
         IF ~(q < Len(data))
         THEN RaiseIn(Step("image", last.images + 1))
         ELSE \E sub \in {read_subblocks(data, q + 1)} :
              \E dec \in {lzw_decode(sub.img, At(data, q),
                                      Word(data, p + 5) * Word(data, p + 7))} :
                IF dec.pc = "raise"
                THEN RaiseIn(Step("image", last.images + 1))
                ELSE \E f \in {FrameAt(p, dec.result)} :
                     \E drawn \in {FrameCalls(f)} :
                       /\ p' = sub.pos
                       /\ calls' = calls \o drawn
                       /\ surface' = ApplyCalls(surface, drawn)
                       /\ frame' = <<[f EXCEPT !.drawn = drawn]>>
                       /\ gce_seen' = <<>>
                       /\ last' = Step("image", last.images + 1)
                       /\ UNCHANGED <<inputVars, pc, start_pos, bg_color_index, loops_done,
                                      transparency_index, frame_delay_ms, lzw, first_pass>>

\* Lines 270-271 and 397: a byte that is no block type is stepped over
UnknownBlock ==
    /\ pc = "block"
    /\ p < Len(data)
    /\ At(data, p) \notin {Trailer, Extension, ImageDescriptor}
    /\ p' = p + 1
    /\ last' = Step("unknown", last.images)
    /\ UNCHANGED <<inputVars, pc, start_pos, bg_color_index, loops_done, transparency_index,
                   frame_delay_ms, surface, calls, frame, gce_seen, lzw, first_pass>>

Next ==
    \/ Call
    \/ Reject
    \/ Start
    \/ BeginPass
    \/ Finish
    \/ EndOfData
    \/ ReadTrailer
    \/ ExtensionRaise
    \/ GraphicControl
    \/ OddGraphicControl
    \/ OtherExtension
    \/ DescriptorRaise
    \/ SkipInterlaced
    \/ DrawImage
    \/ UnknownBlock

Spec == Init /\ [][Next]_vars

\* gif() runs to its end: no step is delayed forever
FairSpec == Spec /\ WF_vars(Next)

----------------------------------------------------------------------------
\* _lzw_decode on its own, one step per code read

MaxLzwLen == 3

MaxPixels == 3

\* Bytes whose 3-bit codes (minimum code size 2) cover the clear code 4, the
\* end code 5, root codes, the next free code and codes out of range
LzwByteValues == {0, 5, 12, 13, 18, 224, 255}

LzwInputs == UNION {[1..k -> LzwByteValues] : k \in 0..MaxLzwLen}

MinCodeSizes == {0, 1, 2, 3, 8, 9, 255}

\* _lzw_decode is called
LzwInvoke ==
    /\ lzw.pc = "idle"
    /\ \E img \in LzwInputs, mcs \in MinCodeSizes, n \in 0..MaxPixels :
           lzw' = LzwCall(img, mcs, n)
    /\ UNCHANGED gifVars

\* Lines 157-216
LzwBegin ==
    /\ lzw.pc = "call"
    /\ lzw' = LzwStart(lzw)
    /\ UNCHANGED gifVars

\* Lines 218-257
LzwStep ==
    /\ lzw.pc = "run"
    /\ lzw' = LzwIter(lzw)
    /\ UNCHANGED gifVars

NextLzw == LzwInvoke \/ LzwBegin \/ LzwStep

SpecLzw == Init /\ [][NextLzw]_vars

----------------------------------------------------------------------------
\* _lzw_decode on the output of a GIF LZW encoder: the greedy encoder of the
\* GIF standard, which opens with a clear code, may emit a clear code before
\* any later index, may repeat a clear code, closes with the end code, and packs
\* the codes LSB first at the width the decoder expects

MaxIndices == 4

\* The width bits of a code, lowest first
CodeBits(code, width) == [j \in 1..width |-> (code \div Pow2(j - 1)) % 2]

RECURSIVE ByteAt(_, _, _)
ByteAt(bits, k, j) ==
    IF j > 8 \/ 8 * k + j > Len(bits)
    THEN 0
    ELSE bits[8 * k + j] * Pow2(j - 1) + ByteAt(bits, k, j + 1)

\* LSB-first packing, the last byte padded with zero bits
PackBits(bits) == [k \in 1..((Len(bits) + 7) \div 8) |-> ByteAt(bits, k - 1, 1)]

\* The code of an entry of the encoder's table
CodeOf(dict, w) == (CHOOSE j \in 1..Len(dict) : dict[j] = w) - 1

InTable(dict, w) == \E j \in 1..Len(dict) : dict[j] = w

\* The longest run from position i that is in the table and does not run over
\* a position at which the encoder clears
RECURSIVE MatchLen(_, _, _, _, _)
MatchLen(s, i, l, clears, dict) ==
    IF /\ i + l <= Len(s)
       /\ (i + l) \notin clears
       /\ InTable(dict, SubSeq(s, i, i + l))
    THEN MatchLen(s, i, l + 1, clears, dict)
    ELSE l

\* The clear code at the given width, then once more at the initial width if it
\* is repeated
ClearBits(mcs, code_size, twice) ==
    CodeBits(Pow2(mcs), code_size) \o (IF twice THEN CodeBits(Pow2(mcs), mcs + 1) ELSE <<>>)

RECURSIVE EncodeFrom(_, _, _, _, _, _, _, _)
EncodeFrom(s, i, clears, doubled, dict, code_size, mcs, bits) ==
    LET clear_code == Pow2(mcs)
        end_code == clear_code + 1
    IN  IF i > Len(s)
        THEN bits \o CodeBits(end_code, code_size)
        ELSE IF i \in clears
        THEN EncodeFrom(s, i, clears \ {i}, doubled, RootDictionary(clear_code), mcs + 1,
                        mcs, bits \o ClearBits(mcs, code_size, i \in doubled))
        ELSE LET l == MatchLen(s, i, 1, clears, dict)
                 w == SubSeq(s, i, i + l - 1)
                 widen == Len(dict) = Pow2(code_size) /\ code_size < max_code_size
                 grown == IF i + l <= Len(s)
                          THEN Append(dict, SubSeq(s, i, i + l))
                          ELSE dict
             IN  EncodeFrom(s, i + l, clears, doubled, grown,
                            IF widen THEN code_size + 1 ELSE code_size, mcs,
                            bits \o CodeBits(CodeOf(dict, w), code_size))

\* The bytes of the index sequence s, with a clear code before each position
\* of clears, repeated at the positions of doubled (position 1 is the leading
\* clear code)
Encode(s, clears, doubled, mcs) ==
    PackBits(EncodeFrom(s, 1, clears, doubled, RootDictionary(Pow2(mcs)), mcs + 1, mcs,
                        ClearBits(mcs, mcs + 1, 1 \in doubled)))

\* At most one clear code is repeated
Doublings(clears) == {{}} \cup {{i} : i \in clears \cup {1}}

\* Index sequences over the whole root alphabet, one index shorter for the
\* larger alphabet
IndexSeqs(mcs) ==
    UNION {[1..k -> 0..(Pow2(mcs) - 1)] : k \in 0..(MaxIndices + 2 - mcs)}

\* _lzw_decode is called on an encoded frame; source is the encoded sequence
CodecInvoke ==
    /\ lzw.pc = "idle"
    /\ \E mcs \in {2, 3} :
       \E s \in IndexSeqs(mcs) :
       \E clears \in SUBSET (2..Len(s)) :
       \E doubled \in Doublings(clears) :
           lzw' = LzwCall(Encode(s, clears, doubled, mcs), mcs, Len(s))
                      @@ [source |-> s, clears |-> clears, doubled |-> doubled]
    /\ UNCHANGED gifVars

NextCodec == CodecInvoke \/ LzwBegin \/ LzwStep

SpecCodec == Init /\ [][NextCodec]_vars

\* _lzw_decode on arbitrary bytes and on encoded frames
NextDecoder == LzwInvoke \/ CodecInvoke \/ LzwBegin \/ LzwStep

SpecDecoder == Init /\ [][NextDecoder]_vars

----------------------------------------------------------------------------
\* _lzw_decode on one long frame: 5410 zero bytes with minimum code size 8,
\* that is, the root code 0 again and again at 9 to 12 bits, for an image of
\* 255 x 255 pixels

LongStream == [i \in 1..5410 |-> 0]

LongInvoke ==
    /\ lzw.pc = "idle"
    /\ lzw' = LzwCall(LongStream, 8, 255 * 255)
    /\ UNCHANGED gifVars

NextLongStream == LongInvoke \/ LzwBegin \/ LzwStep

SpecLongStream == Init /\ [][NextLongStream]_vars

----------------------------------------------------------------------------
\* Properties of gif()

\* The destination of source position i of frame f
Dest(f, i) == <<f.x + f.left + (i % f.width), f.y + f.top + (i \div f.width)>>

\* The source positions of frame f drawn with its transparency index
TransparentPositions(f) ==
    {i \in 0..(Len(f.indices) - 1) : f.trans # <<>> /\ f.indices[i + 1] = f.trans[1]}

HasSignature ==
    /\ Len(data) >= 6
    /\ \/ SubSeq(data, 1, 6) = <<71, 73, 70, 56, 55, 97>>
       \/ SubSeq(data, 1, 6) = <<71, 73, 70, 56, 57, 97>>

\* C1: a stream shorter than 13 bytes, or one that does not start with GIF87a
\* or GIF89a, makes gif() return at once: no pixel, no fill_rect, no show and
\* no sleep is ever issued, whatever loop, clear, crop and delay_ms are.
C1_RejectedStreamDrawsNothing ==
    (Len(data) < 13 \/ ~HasSignature) =>
        /\ pc \in {"idle", "start", "done"}
        /\ calls = <<>>
        /\ frame = <<>>
        /\ loops_done = 0

\* A 13-byte-or-longer stream with a wrong signature was rejected, with
\* clearing and cropping asked for
C1_Witness ==
    /\ pc = "done"
    /\ Len(data) > 13
    /\ ~HasSignature
    /\ clear
    /\ crop # <<>>

\* C2: with loop = n >= 0 a well-formed stream is passed over exactly n times
\* (loops_done grows by one per completed pass, from 0 to n) and gif() then
\* returns; with loop < 0 gif() never returns: after any number of passes it
\* is still playing.
C2_LoopCount ==
    /\ [](pc = "done" /\ HeaderAccepted(data) => loop >= 0 /\ loops_done = loop)
    /\ [](HeaderAccepted(data) /\ pc \notin {"idle", "start"} => loops_done >= 0 /\ (loop >= 0 => loops_done <= loop))
    /\ [][loops_done' # loops_done =>
            loops_done' = loops_done + 1 /\ pc = "block" /\ pc' = "loop"]_vars
    /\ [](loop < 0 /\ HeaderAccepted(data) => pc # "done")
    /\ (data \in WellFormedStreams /\ loop >= 0) ~> (pc = "done" /\ loops_done = loop)

\* A well-formed stream has been played the largest number of times
C2_Witness ==
    /\ pc = "done"
    /\ data \in WellFormedStreams
    /\ loop = MaxLoop
    /\ loops_done = MaxLoop
    /\ frame # <<>>

\* C3 as stated: a destination pixel whose source index is the transparency
\* index has, after the frame, the value it had before the frame, for every
\* clear flag and crop rectangle.
C3_TransparentPixelKeepsPreFrameValue ==
    frame # <<>> =>
        \A i \in TransparentPositions(frame[1]) :
            Dest(frame[1], i) \in Display =>
                surface[Dest(frame[1], i)] = frame[1].pre[Dest(frame[1], i)]

\* C3 as amended: no pixel() is issued for such a position, so after the frame
\* the pixel has its pre-frame value when clear is not set, and is off when
\* clear is set, since the fill_rect covers the whole destination rectangle.
C3_TransparentPixelIsNotWritten ==
    frame # <<>> =>
        \A i \in TransparentPositions(frame[1]) :
            /\ \A k \in 1..Len(frame[1].drawn) :
                   frame[1].drawn[k][1] = "pixel" =>
                       <<frame[1].drawn[k][2], frame[1].drawn[k][3]>> # Dest(frame[1], i)
            /\ Dest(frame[1], i) \in Display =>
                   surface[Dest(frame[1], i)] =
                       IF frame[1].clear THEN 0 ELSE frame[1].pre[Dest(frame[1], i)]

\* A lit pixel under a transparent index survived a frame drawn without clear
\* and with a crop rectangle
C3_Witness ==
    /\ frame # <<>>
    /\ ~frame[1].clear
    /\ frame[1].crop # <<>>
    /\ \E i \in TransparentPositions(frame[1]) :
           /\ Dest(frame[1], i) \in Display
           /\ frame[1].pre[Dest(frame[1], i)] = 1
           /\ surface[Dest(frame[1], i)] = 1

RECURSIVE FramesInOrder(_, _, _)
FramesInOrder(cs, i, st) ==
    IF i > Len(cs)
    THEN st = "frame"
    ELSE LET op == cs[i][1]
         IN  IF st = "frame"
             THEN IF clear
                  THEN op = "fill_rect" /\ FramesInOrder(cs, i + 1, "pixels")
                  ELSE \/ op = "pixel" /\ FramesInOrder(cs, i + 1, "pixels")
                       \/ op = "show" /\ FramesInOrder(cs, i + 1, "sleep")
             ELSE IF st = "pixels"
             THEN \/ op = "pixel" /\ FramesInOrder(cs, i + 1, "pixels")
                  \/ op = "show" /\ FramesInOrder(cs, i + 1, "sleep")
             ELSE op = "sleep" /\ FramesInOrder(cs, i + 1, "frame")

Shows(cs) == Cardinality({k \in 1..Len(cs) : cs[k][1] = "show"})

\* C5: in a pass every non-interlaced image descriptor produces exactly one
\* show; a frame's calls come in the order fill_rect (exactly when clear is
\* set), its pixels, its show, one sleep, no pixel of a later frame coming
\* before the show of an earlier one; and the pass has as many shows as
\* non-interlaced image descriptors were parsed.
C5_OneShowPerDescriptor ==
    pc \notin {"idle", "start"} =>
        /\ FramesInOrder(calls, 1, "frame")
        /\ Shows(calls) = last.images

\* C6: a frame is composited with transparency index T exactly when a GCE with
\* the transparency bit and index T was parsed since the previous image
\* descriptor of the pass; with no GCE since then it has no transparency and,
\* without a delay override, waits 50 ms: the pending GCE never carries over
\* to a later frame.
C6_GceAppliesToNextImageOnly ==
    frame # <<>> =>
        /\ frame[1].trans =
               IF frame[1].gce # <<>> /\ frame[1].gce[1].packed_fields % 2 = 1
               THEN <<frame[1].gce[1].trans_index>>
               ELSE <<>>
        /\ (frame[1].gce = <<>> /\ delay_ms = <<>>) => frame[1].delay = 50

\* C7: a byte at block position that is none of 0x3B, 0x21, 0x2C ends the pass
\* as a trailer does: once it is read the parser is no longer scanning blocks
\* of that pass.
C7_UnknownByteEndsPass ==
    last.kind = "unknown" => pc \in {"loop", "done"}

IsProperPrefix(a, b) == Len(a) < Len(b) /\ a = SubSeq(b, 1, Len(a))

\* C8: a stream with a valid header that is cut at any byte position never
\* makes the parser read at or beyond the end of the stream: gif() does not
\* raise, the cut ends the pass as a trailer does.
C8_TruncationNeverRaises ==
    (/\ Len(data) >= 13
     /\ HasSignature
     /\ \E w \in WellFormedStreams : IsProperPrefix(data, w))
    => pc # "raised"

\* The index of the zero-length terminator of the sub-block chain starting at s
RECURSIVE TerminatorFrom(_, _)
TerminatorFrom(d, s) ==
    IF s >= Len(d)
    THEN Absent
    ELSE IF d[s + 1] = 0 THEN s ELSE TerminatorFrom(d, s + 1 + d[s + 1])

\* Where the sub-block chain of the image described at q starts: after the
\* ten descriptor bytes, the local colour table and the minimum code size
ChainStart(d, q) ==
    q + 10 + (IF d[q + 10] >= 128 THEN 3 * 2 ^ ((d[q + 10] % 8) + 1) ELSE 0) + 1

\* C9: an interlaced image descriptor causes no fill_rect, pixel, show or
\* sleep, and leaves the cursor on the byte after the zero-length terminator
\* of the image's sub-block chain, past the local colour table and the
\* minimum-code-size byte (at the end of the data when the chain is cut).
C9_InterlacedImageSkipped ==
    (last.kind = "interlaced" /\ pc = "block") =>
        /\ Len(calls) = last.ncalls
        /\ frame = <<>> \/ frame[1].at < last.at
        /\ IF TerminatorFrom(data, ChainStart(data, last.at)) # Absent
           THEN p = TerminatorFrom(data, ChainStart(data, last.at)) + 1
           ELSE p >= Len(data)

\* An interlaced image with a local colour table was stepped over and the
\* cursor is on the image descriptor that follows it
C9_Witness ==
    /\ last.kind = "interlaced"
    /\ pc = "block"
    /\ data[last.at + 10] >= 128
    /\ p < Len(data)
    /\ data[p + 1] = 44
    /\ data[p] = 0

----------------------------------------------------------------------------
\* Properties of _lzw_decode

\* C10: for every byte sequence, every minimum code size and every expected
\* pixel count n, _lzw_decode returns a sequence of at most n indices, and
\* with a minimum code size outside 2..8 exactly the first min(n, len) input
\* bytes.
C10_ReturnsAtMostExpected ==
    lzw.pc \notin {"idle", "call", "run"} =>
        /\ lzw.pc = "ret"
        /\ Len(lzw.result) <= lzw.expected_pixels
        /\ (lzw.min_code_size < 2 \/ lzw.min_code_size > 8) =>
               /\ Len(lzw.result) = Min(lzw.expected_pixels, Len(lzw.img_bytes))
               /\ \A i \in 1..Len(lzw.result) : lzw.result[i] = lzw.img_bytes[i]

\* C11: for every index sequence s over the root alphabet and every valid
\* GIF LZW encoding of s (leading clear code, clear codes in mid-stream,
\* trailing end code, LSB-first variable-width packing), _lzw_decode on the
\* encoded bytes with expected_pixels = Len(s) returns exactly s.
C11_DecodesEncodedSequence ==
    lzw.pc \notin {"idle", "call", "run"} =>
        lzw.pc = "ret" /\ lzw.result = lzw.source

\* C12: every pass of a playback starts with the parse cursor right after the
\* global colour table and with no pending delay or transparency, and every
\* completed pass has issued exactly the calls of the first pass, with the
\* same arguments in the same order.
C12_PassesRepeatFirstPass ==
    /\ [][pc = "loop" /\ pc' = "block" =>
            /\ p' = 13 + (IF At(data, 10) >= 128 THEN 3 * 2 ^ ((At(data, 10) % 8) + 1) ELSE 0)
            /\ transparency_index' = <<>>
            /\ frame_delay_ms' = 0]_vars
    /\ [](pc \in {"loop", "done"} /\ loops_done >= 1 =>
            first_pass # <<>> /\ calls = first_pass[1])

\* A second pass has been completed over a stream whose first pass ended with
\* a transparency index and a delay pending
C12_Witness ==
    /\ pc = "loop"
    /\ loops_done = 2
    /\ data \in {h \o b : h \in GoodHeaders, b \in RepeatedBodies}
    /\ transparency_index # <<>>
    /\ frame_delay_ms > 0
    /\ first_pass # <<>>
    /\ Len(first_pass[1]) > 4
    /\ calls = first_pass[1]

\* C13: for every byte sequence, every minimum code size in 2..8 and every
\* expected pixel count, _lzw_decode returns normally: no sequence of codes
\* makes it take the first element of an empty previous sequence.
C13_DecoderNeverRaises ==
    lzw.min_code_size \in 2..8 => lzw.pc # "raise"

\* The code read by the coming step of the decoder that decides what the step
\* does: the code after a clear code if there is one, and the dictionary it is
\* looked up in
DecidingCode(s) ==
    LET clear_code == Pow2(s.min_code_size)
        first == s.pc = "call"
        width == IF first THEN s.min_code_size + 1 ELSE s.code_size
        c1 == next_code(s.img_bytes, s.bit_pos, width)
        c2 == next_code(s.img_bytes, c1.bit_pos, s.min_code_size + 1)
    IN  IF c1.code = clear_code
        THEN [code |-> c2.code, entries |-> RootDictionary(clear_code), after_clear |-> TRUE]
        ELSE [code |-> c1.code,
              entries |-> IF first THEN RootDictionary(clear_code) ELSE s.dictionary,
              after_clear |-> FALSE]

\* The coming step reads a code that is neither the clear code, nor the end
\* code, nor an existing entry, nor the next entry to be assigned
ReadsInvalidCode(s) ==
    LET clear_code == Pow2(s.min_code_size)
        d == DecidingCode(s)
    IN  /\ s.pc \in {"call", "run"}
        /\ ~FallbackRange(s.min_code_size)
        /\ s.pc = "run" => Len(s.output) < s.expected_pixels
        /\ d.code # Absent
        /\ d.code \notin {clear_code, clear_code + 1}
        /\ ~(d.code < Len(d.entries) /\ At(d.entries, d.code) # <<>>)
        /\ d.code # Len(d.entries)

\* C14: whenever _lzw_decode reads a code that is not the clear code, not the
\* end code, not an existing entry and not the next entry to be assigned,
\* decoding stops at that code and returns exactly the pixels emitted before
\* it, at every position of the code stream, the one right after a clear code
\* included.
C14_InvalidCodeStopsDecoding ==
    [][ReadsInvalidCode(lzw) => lzw'.pc = "ret" /\ lzw'.result = lzw.output]_vars

\* The coming block step is at a complete extension that is not a graphic
\* control extension of size 4
AtSkippedExtension ==
    /\ pc = "block"
    /\ p + 2 < Len(data)
    /\ At(data, p) = 33
    /\ At(data, p + 1) # 249 \/ At(data, p + 2) # 4
    /\ TerminatorFrom(data, p + 2) # Absent

\* C15: an extension whose label is not 0xF9, or a graphic control extension
\* whose declared block size is not 4, is skipped: afterwards the cursor is on
\* the byte after the zero-length terminator of the extension's sub-block
\* chain, the data of the declared first block having been stepped over as
\* data, and the pending delay and transparency index are unchanged.
C15_ExtensionSkippedToTerminator ==
    [][AtSkippedExtension =>
           /\ pc' = "block"
           /\ p' = TerminatorFrom(data, p + 2) + 1
           /\ transparency_index' = transparency_index
           /\ frame_delay_ms' = frame_delay_ms]_vars

\* The delay the frame f is to be followed by: the caller's delay_ms when one
\* is supplied, otherwise ten times the delay field of the frame's graphic
\* control extension with 50 in place of a result <= 0, otherwise 50
ResolvedDelay(f) ==
    IF delay_ms # <<>>
    THEN delay_ms[1]
    ELSE IF f.gce # <<>>
    THEN (IF 10 * f.gce[1].delay <= 0 THEN 50 ELSE 10 * f.gce[1].delay)
    ELSE 50

\* C16: the sleep issued after each frame's show() lasts the caller's delay_ms
\* whenever the caller supplies one (any value, used as given); otherwise 10
\* times the 16-bit delay field of the frame's graphic control extension, a
\* result <= 0 being replaced by 50 ms; otherwise, without such an extension,
\* 50 ms.
C16_SleepIsResolvedDelay ==
    frame # <<>> =>
        LET f == frame[1]
            n == Len(f.drawn)
        IN  /\ n >= 2
            /\ f.drawn[n - 1] = <<"show">>
            /\ f.drawn[n] = <<"sleep", ResolvedDelay(f)>>

\* The coming step of the decoder reads a clear code: as the first code, or
\* as a code of the loop
ReadsClearCode(s) ==
    /\ s.pc \in {"call", "run"}
    /\ ~FallbackRange(s.min_code_size)
    /\ s.pc = "run" => Len(s.output) < s.expected_pixels
    /\ next_code(s.img_bytes, s.bit_pos,
                 IF s.pc = "call" THEN s.min_code_size + 1 ELSE s.code_size).code
           = Pow2(s.min_code_size)

\* C17: after a clear code is read at any point of the code stream, the
\* dictionary holds exactly the 2^min_code_size single-index root entries and
\* the two reserved slots, which hold no sequence, and code_size is
\* min_code_size + 1, whatever the dictionary and code_size were before.
C17_ClearCodeResets ==
    [][ReadsClearCode(lzw) =>
           /\ Len(lzw'.dictionary) = 2 ^ lzw.min_code_size + 2
           /\ \A i \in 1..Len(lzw'.dictionary) :
                  lzw'.dictionary[i] = IF i <= 2 ^ lzw.min_code_size THEN <<i - 1>> ELSE <<>>
           /\ lzw'.code_size = lzw.min_code_size + 1]_vars

\* A clear code was read in mid-stream after the dictionary had grown by two
\* entries and the code had widened to 4 bits
C17_Witness ==
    /\ lzw.pc = "run"
    /\ "source" \in DOMAIN lzw
    /\ lzw.source = <<0, 1, 2, 3>>
    /\ lzw.clears = {4}
    /\ lzw.doubled = {}
    /\ lzw.output = lzw.source
    /\ Len(lzw.dictionary) = 6
    /\ lzw.code_size = 3

C19_DictionaryAtMost4096 ==
    Len(lzw.dictionary) <= 4096

IsPixelCall(c) == c[1] = "pixel"

\* The source positions of frame f that are written: neither transparent nor
\* cropped
WrittenPositions(f) ==
    {i \in 0..(Len(f.indices) - 1) :
        /\ i \notin TransparentPositions(f)
        /\ f.crop # <<>> =>
               /\ f.crop[1] <= Dest(f, i)[1] /\ Dest(f, i)[1] <= f.crop[3]
               /\ f.crop[2] <= Dest(f, i)[2] /\ Dest(f, i)[2] <= f.crop[4]}

\* C20: for a frame with descriptor (left, top, width, height), origin (x, y),
\* background index bg and k decoded indices, the i-th index that is neither
\* transparent nor cropped causes exactly one pixel() call, at
\* (x + left + i mod width, y + top + i div width), with value 1 if the index
\* differs from bg and 0 if it equals bg, in increasing order of i; the frame
\* makes no other pixel() call, so every write lies inside the frame's
\* destination rectangle, also when k < width * height.
C20_PixelCallsOfFrame ==
    frame # <<>> =>
        LET f == frame[1]
            pixels == SelectSeq(f.drawn, IsPixelCall)
            written == WrittenPositions(f)
        IN  /\ Len(f.indices) <= f.width * f.height
            /\ Len(pixels) = Cardinality(written)
            /\ \A i \in written :
                   pixels[Cardinality({m \in written : m < i}) + 1] =
                       <<"pixel", f.x + f.left + (i % f.width), f.y + f.top + (i \div f.width),
                         IF f.indices[i + 1] # f.bg THEN 1 ELSE 0>>
            /\ \A j \in 1..Len(pixels) :
                   /\ f.x + f.left <= pixels[j][2] /\ pixels[j][2] < f.x + f.left + f.width
                   /\ f.y + f.top <= pixels[j][3] /\ pixels[j][3] < f.y + f.top + f.height

\* A partial frame whose descriptor is off the corner of the screen: fewer
\* indices than pixels, some of them written with 1 and with 0, and one
\* cropped
C20_Witness ==
    /\ frame # <<>>
    /\ frame[1].left = 1
    /\ frame[1].top = 1
    /\ frame[1].crop # <<>>
    /\ Len(frame[1].indices) < frame[1].width * frame[1].height
    /\ Cardinality(WrittenPositions(frame[1])) < Len(frame[1].indices)
    /\ \E a, b \in 1..Len(frame[1].drawn) :
           /\ a < b
           /\ IsPixelCall(frame[1].drawn[a]) /\ frame[1].drawn[a][4] = 1
           /\ IsPixelCall(frame[1].drawn[b]) /\ frame[1].drawn[b][4] = 0

\* C21: for every byte stream, well-formed or malformed, and every loop count
\* n >= 0, playback eventually reaches Done: it is never left in another way,
\* within a pass the parse cursor strictly increases at every block step, the
\* sub-block skips and reads of the step included, so that no pass goes on
\* for ever, and each completed pass increases loops_done by exactly 1.
C21_PlaybackReachesDone ==
    /\ [](loop >= 0 /\ pc # "idle" => pc = "done" \/ ENABLED Next)
    /\ [][pc = "block" /\ pc' = "block" => p' > p]_vars
    /\ [][pc = "block" /\ pc' = "loop" => loops_done' = loops_done + 1]_vars
    /\ (loop >= 0 /\ pc # "idle") ~> (pc = "done")

====
